---- MODULE Spec2Model ----
(***************************************************************************)
(* A model of the `binary` fixed-width bit vector of libslm-binary         *)
(* (src/src/index.ts): its storage, the convert -> reform pipeline, the    *)
(* static operations and the output conversions.                           *)
(*                                                                         *)
(* A vector is a record                                                    *)
(*   [length, mask, decimalMask, signedMask, useSigned, bits]              *)
(* where bits is a function on 0..length-1, index 0 being the most         *)
(* significant bit, exactly as the indexed properties this[0..length-1].   *)
(*                                                                         *)
(* The host's numbers are IEEE doubles holding integers; the bitwise       *)
(* operators work on their 32-bit two's complement image.  A double is     *)
(* modelled exactly as a record [hi, lo] standing for hi * 2^16 + lo       *)
(* (0 <= lo < 2^16), so that values such as 2^32 - 1 are represented; an   *)
(* int32 is a plain integer in -2^31 .. 2^31 - 1.                          *)
(***************************************************************************)
EXTENDS Integers, Sequences, FiniteSets, TLC

\* ------------------------------------------------------------------ bounds

\* Widths 1..MaxLength of the general `binary` are enumerated exhaustively.
MaxLength == 4

\* Longest array seed is MaxLength + MaxExtra elements (longer than the vector).
MaxExtra == 1

\* Number of calls made on a vector of an enumerated width after its
\* construction.
MaxSteps == 2

\* Number of calls made on a vector of a wider preset, whose values are
\* sampled.
MaxWideSteps == 1

\* ------------------------------------------------------- the host's numbers

Limb == 2^16

HalfLimb == 2^15

\* The double with integer value i (i any int32).
Num(i) == [hi |-> i \div Limb, lo |-> i % Limb]

\* a + b on doubles.
NumAdd(a, b) ==
    [hi |-> a.hi + b.hi + ((a.lo + b.lo) \div Limb), lo |-> (a.lo + b.lo) % Limb]

\* -a on doubles.
NumNeg(a) ==
    IF a.lo = 0 THEN [hi |-> 0 - a.hi, lo |-> 0]
    ELSE [hi |-> (0 - a.hi) - 1, lo |-> Limb - a.lo]

\* a - b on doubles.
NumSub(a, b) == NumAdd(a, NumNeg(b))

\* a < 0 on doubles.
NumIsNegative(a) == a.hi < 0

\* The integer a double stands for, when it fits an int32.
Val(a) == a.hi * Limb + a.lo

\* ToInt32: the double modulo 2^32, read as a signed 32-bit integer.
ToInt32(a) == (((a.hi + HalfLimb) % Limb) - HalfLimb) * Limb + a.lo

MinInt32 == (0 - HalfLimb) * Limb

\* a & b, a | b, a ^ b, ~a on int32, by two's complement arithmetic: a % 2
\* is the lowest bit, a \div 2 the remaining bits with the sign kept, 0 is
\* all zeros and -1 is all ones.
BitNot(a) == (0 - 1) - a

RECURSIVE BitAnd(_, _)
BitAnd(a, b) ==
    IF a = 0 \/ b = 0 THEN 0
    ELSE IF a = 0 - 1 THEN b
    ELSE IF b = 0 - 1 THEN a
    ELSE (a % 2) * (b % 2) + 2 * BitAnd(a \div 2, b \div 2)

RECURSIVE BitOr(_, _)
BitOr(a, b) ==
    IF a = 0 THEN b
    ELSE IF b = 0 THEN a
    ELSE IF a = 0 - 1 \/ b = 0 - 1 THEN 0 - 1
    ELSE (IF (a % 2) + (b % 2) > 0 THEN 1 ELSE 0) + 2 * BitOr(a \div 2, b \div 2)

RECURSIVE BitXor(_, _)
BitXor(a, b) ==
    IF a = 0 THEN b
    ELSE IF b = 0 THEN a
    ELSE IF a = 0 - 1 THEN BitNot(b)
    ELSE IF b = 0 - 1 THEN BitNot(a)
    ELSE (((a % 2) + (b % 2)) % 2) + 2 * BitXor(a \div 2, b \div 2)

\* a << n on int32: the count is taken modulo 32; the low 31 - c bits of a
\* move up by c places and bit 31 - c of a becomes the sign.
ShiftLeft(a, n) ==
    LET c == n % 32
        low == a % (2^(31 - c))
        top == (a \div (2^(31 - c))) % 2
    IN  IF c = 0 THEN a
        ELSE (IF low = 0 THEN 0 ELSE low * (2^c)) + (IF top = 1 THEN MinInt32 ELSE 0)

\* a >> n on int32: the count is taken modulo 32 and the sign is kept.
ShiftRight(a, n) ==
    LET c == n % 32
    IN  IF c = 31 THEN (IF a < 0 THEN 0 - 1 ELSE 0) ELSE a \div (2^c)

\* ------------------------------------------------------- values passed in
\* A value handed to the constructor or to an operation, tagged by what
\* `typeof` / `instanceof` / Array.isArray say about it.

Null == [kind |-> "null"]

Undefined == [kind |-> "undefined"]

Number(n) == [kind |-> "number", num |-> n]

Boolean(b) == [kind |-> "boolean", bool |-> b]

\* A string is the sequence of its characters.
String(t) == [kind |-> "string", text |-> t]

Array(e) == [kind |-> "array", elems |-> e]

Binary(o) == [kind |-> "binary", obj |-> o]

\* The value of one decimal digit character, -1 for any other character.
DigitValue(c) ==
    CASE c = "0" -> 0 [] c = "1" -> 1 [] c = "2" -> 2 [] c = "3" -> 3
      [] c = "4" -> 4 [] c = "5" -> 5 [] c = "6" -> 6 [] c = "7" -> 7
      [] c = "8" -> 8 [] c = "9" -> 9 [] OTHER -> 0 - 1

\* The digits of a numeric literal and its radix: '0b...' is binary, anything
\* else is read as decimal.
IsBinaryLiteral(t) == Len(t) > 2 /\ t[1] = "0" /\ t[2] = "b"

LiteralDigits(t) == IF IsBinaryLiteral(t) THEN SubSeq(t, 3, Len(t)) ELSE t

LiteralRadix(t) == IF IsBinaryLiteral(t) THEN 2 ELSE 10

\* isNaN(+text): the empty string is 0; otherwise every digit must belong to
\* the radix.
StringIsNaN(t) ==
    \E i \in 1..Len(LiteralDigits(t)) :
        LET d == DigitValue(LiteralDigits(t)[i])
        IN  d < 0 \/ d >= LiteralRadix(t)

\* a * radix on doubles, for the radices of the literals above.
NumTimes(a, radix) ==
    LET a2 == NumAdd(a, a)
        a4 == NumAdd(a2, a2)
        a8 == NumAdd(a4, a4)
    IN  IF radix = 2 THEN a2 ELSE NumAdd(a8, a2)

RECURSIVE ParseDigits(_, _, _)
ParseDigits(d, radix, n) ==
    IF d = <<>> THEN n
    ELSE ParseDigits(Tail(d), radix, NumAdd(NumTimes(n, radix), Num(DigitValue(Head(d)))))

\* +text for a numeric string.
StringToNumber(t) == ParseDigits(LiteralDigits(t), LiteralRadix(t), Num(0))

\* ------------------------------------------------------------ the vector

\* The sum of the doubles f[lo], ..., f[hi] (empty when lo > hi).
RECURSIVE NumSum(_, _, _)
NumSum(f, lo, hi) ==
    IF lo > hi THEN Num(0)
    ELSE IF lo = hi THEN f[lo]
    ELSE LET mid == (lo + hi) \div 2
         IN  NumAdd(NumSum(f, lo, mid), NumSum(f, mid + 1, hi))

\* +('0b' + '1'.repeat(size)): the double written as size ones in binary,
\* 2^size - 1.
Ones(size) ==
    IF size < 16 THEN [hi |-> 0, lo |-> 2^size - 1]
    ELSE [hi |-> 2^(size - 16) - 1, lo |-> Limb - 1]

\* The loop variable `mask` after n rounds of `mask <<= 1` from 1: the int32
\* 1 << n up to the sign bit, and 0 once the bit is shifted out.
LoopMask(n) == IF n < 31 THEN 2^n ELSE IF n = 31 THEN MinInt32 ELSE 0

\* get unsigned: the loop adds mask to number at every index whose bit is
\* set, mask being 1 at index length-1 and shifted left once per index.
unsigned(this) ==
    NumSum([index \in 0..(this.length - 1) |->
                IF this.bits[index] THEN Num(LoopMask(this.length - 1 - index))
                ELSE Num(0)],
           0, this.length - 1)

\* get signed, as two's complement: the sign bit weighs -(signedMask + 1).
signedTwosComplement(this) ==
    LET number == unsigned(this)
    IN  IF BitAnd(ToInt32(number), BitNot(this.decimalMask)) # 0
        THEN NumAdd(NumNeg(Num(this.signedMask + 1)),
                    Num(BitAnd(ToInt32(number), this.decimalMask)))
        ELSE number

\* get signed
signed(this) ==
    LET number == unsigned(this)
    IN  IF BitAnd(ToInt32(number), this.signedMask) # 0
        THEN NumAdd(NumNeg(Num(this.signedMask)),
                    Num(BitAnd(ToInt32(number), this.decimalMask)))
        ELSE number

\* valueOf() and get value
valueOf(this) == IF this.useSigned THEN signed(this) ELSE unsigned(this)

\* reform with its loop starting one index too far, at this.length.
reformOverrun(this, value) ==
    [this EXCEPT !.bits =
        [index \in 0..this.length |->
            BitAnd(ToInt32(value), LoopMask(this.length - index)) # 0]]

\* reform(value): the vector with its bits rewritten from a number; the bit
\* at index is tested against the loop's mask for that index.
reform(this, value) ==
    IF ~this.useSigned
    THEN [this EXCEPT !.bits =
            [index \in 0..(this.length - 1) |->
                BitAnd(ToInt32(value), LoopMask(this.length - 1 - index)) # 0]]
    ELSE [this EXCEPT !.bits =
            [index \in 0..(this.length - 1) |->
                IF index = 0 /\ NumIsNegative(value) THEN TRUE
                ELSE BitAnd(BitAnd(ToInt32(value), LoopMask(this.length - 1 - index)),
                            this.decimalMask) # 0]]

\* data.every(...) of the three array branches of convert.
EveryBoolean(e) == \A i \in 1..Len(e) : e[i].kind = "boolean"

EveryNumber(e) == \A i \in 1..Len(e) : e[i].kind = "number"

EveryNumericString(e) ==
    \A i \in 1..Len(e) : e[i].kind = "string" /\ ~StringIsNaN(e[i].text)

\* The int32 an array element contributes before it is masked.
ElementInt32(d) ==
    CASE d.kind = "boolean" -> (IF d.bool THEN 1 ELSE 0)
      [] d.kind = "number" -> ToInt32(d.num)
      [] d.kind = "string" -> ToInt32(StringToNumber(d.text))

\* for (index = data.length - 1, mask = 1; index >= 0;
\*      value += data[index] & mask, mask <<= 1, index--)
\* What the loop adds to `value` (array index i is element i + 1).
arrayLoop(e) ==
    NumSum([i \in 1..Len(e) |-> Num(BitAnd(ElementInt32(e[i]), LoopMask(Len(e) - i)))],
           1, Len(e))

\* convert without its check of the length of an array.
convertErrorUnsized(data) ==
    CASE data.kind = "null" -> "null"
      [] data.kind = "undefined" -> "undefined"
      [] data.kind = "string" /\ Len(data.text) = 0 -> "empty string"
      [] data.kind = "string" /\ StringIsNaN(data.text) -> "non-numeric string"
      [] data.kind = "array" /\ ~EveryBoolean(data.elems) /\ ~EveryNumber(data.elems)
            /\ ~EveryNumericString(data.elems) -> "array content"
      [] data.kind \notin {"binary", "number", "boolean", "string", "array"} -> "unsupported"
      [] OTHER -> ""

\* The error convert throws for data, "" when it returns.
convertError(data) ==
    CASE data.kind = "null" -> "null"
      [] data.kind = "undefined" -> "undefined"
      [] data.kind = "string" /\ Len(data.text) = 0 -> "empty string"
      [] data.kind = "string" /\ StringIsNaN(data.text) -> "non-numeric string"
      [] data.kind = "array" /\ Len(data.elems) = 0 -> "empty array"
      [] data.kind = "array" /\ ~EveryBoolean(data.elems) /\ ~EveryNumber(data.elems)
            /\ ~EveryNumericString(data.elems) -> "array content"
      [] data.kind \notin {"binary", "number", "boolean", "string", "array"} -> "unsupported"
      [] OTHER -> ""

\* convert(data): the number data stands for (when convert returns).
convert(data) ==
    CASE data.kind = "binary" -> valueOf(data.obj)
      [] data.kind = "number" -> data.num
      [] data.kind = "boolean" -> (IF data.bool THEN Num(1) ELSE Num(0))
      [] data.kind = "string" -> StringToNumber(data.text)
      [] data.kind = "array" ->
            LET e == data.elems
                v1 == IF EveryBoolean(e) THEN arrayLoop(e) ELSE Num(0)
                v2 == IF EveryNumber(e) THEN NumAdd(v1, arrayLoop(e)) ELSE v1
                v3 == IF EveryNumericString(e) THEN NumAdd(v2, arrayLoop(e)) ELSE v2
            IN  v3

\* The error `new binary(size, argument, ...)` throws, "" when it returns.
constructorError(argument) ==
    IF argument.kind \in {"null", "undefined"} THEN argument.kind
    ELSE convertError(argument)

\* new binary(size, argument, flag): flag is the third argument as passed
\* (Undefined when absent); useSigned keeps its default false unless the
\* flag is a boolean.
constructor(size, argument, flag) ==
    LET m == Ones(size)
        dm == ShiftRight(ToInt32(m), 1)
        fresh == [tag |-> "binary",
                  length |-> size,
                  mask |-> m,
                  decimalMask |-> dm,
                  signedMask |-> BitAnd(ToInt32(m), dm),
                  useSigned |-> IF flag.kind = "boolean" THEN flag.bool ELSE FALSE,
                  bits |-> [index \in 0..(size - 1) |-> FALSE]]
    IN  reform(fresh, convert(argument))

\* The width presets: subclasses that fix the size.
BitLength == 1

NibbleLength == 4

ByteLength == 8

WordLength == 16

DwordLength == 32

bit(value, flag) == [constructor(BitLength, value, flag) EXCEPT !.tag = "bit"]

nibble(value, flag) == [constructor(NibbleLength, value, flag) EXCEPT !.tag = "nibble"]

byte(value, flag) == [constructor(ByteLength, value, flag) EXCEPT !.tag = "byte"]

word(value, flag) == [constructor(WordLength, value, flag) EXCEPT !.tag = "word"]

dword(value, flag) == [constructor(DwordLength, value, flag) EXCEPT !.tag = "dword"]

\* ------------------------------------------------- static operations

\* The temporary every static operation builds from its operand.
operand(target, value) == constructor(target.length, value, Boolean(target.useSigned))

and(target, value) ==
    reform(target, Num(BitAnd(ToInt32(valueOf(target)),
                              ToInt32(valueOf(operand(target, value))))))

or(target, value) ==
    reform(target, Num(BitOr(ToInt32(valueOf(target)),
                             ToInt32(valueOf(operand(target, value))))))

\* xor with `|` written for `^`.
xorWithOr(target, value) ==
    reform(target, Num(BitOr(ToInt32(valueOf(target)),
                             ToInt32(valueOf(operand(target, value))))))

xor(target, value) ==
    reform(target, Num(BitXor(ToInt32(valueOf(target)),
                              ToInt32(valueOf(operand(target, value))))))

not(target) == reform(target, Num(BitNot(ToInt32(valueOf(target)))))

\* leftShift with the count ignored: always one place.
leftShiftByOne(target, value) ==
    reform(target, Num(ShiftLeft(ToInt32(valueOf(target)), 1)))

leftShift(target, value) ==
    reform(target, Num(ShiftLeft(ToInt32(valueOf(target)),
                                 ToInt32(valueOf(operand(target, value))))))

rightShift(target, value) ==
    reform(target, Num(ShiftRight(ToInt32(valueOf(target)),
                                  ToInt32(valueOf(operand(target, value))))))

\* add stopping at the largest value of the width instead of wrapping.
addSaturating(target, value) ==
    LET sum == NumAdd(valueOf(target), valueOf(operand(target, value)))
        over == sum.hi > target.mask.hi
                    \/ (sum.hi = target.mask.hi /\ sum.lo > target.mask.lo)
    IN  reform(target, IF over THEN target.mask ELSE sum)

add(target, value) ==
    reform(target, NumAdd(valueOf(target), valueOf(operand(target, value))))

\* subtract with its operands exchanged.
subtractSwapped(target, value) ==
    reform(target, NumSub(valueOf(operand(target, value)), valueOf(target)))

subtract(target, value) ==
    reform(target, NumSub(valueOf(target), valueOf(operand(target, value))))

\* ------------------------------------------------- comparisons

\* a < b on doubles.
NumLess(a, b) == a.hi < b.hi \/ (a.hi = b.hi /\ a.lo < b.lo)

equal(target, value) == valueOf(target) = valueOf(operand(target, value))

notEqual(target, value) == valueOf(target) # valueOf(operand(target, value))

greaterThen(target, value) == NumLess(valueOf(operand(target, value)), valueOf(target))

\* lessThen against the operand as handed in, with no temporary built.
lessThenUncoerced(target, value) == NumLess(valueOf(target), convert(value))

lessThen(target, value) == NumLess(valueOf(target), valueOf(operand(target, value)))

greaterThenOrEqual(target, value) ==
    ~NumLess(valueOf(target), valueOf(operand(target, value)))

lessThenOrEqual(target, value) ==
    ~NumLess(valueOf(operand(target, value)), valueOf(target))

\* ------------------------------------------------- conversions

\* fromBinary(binary): convert, then reform.
fromBinary(this, other) == reform(this, convert(other))

\* fromArray(array): convert, then reform.
fromArray(this, array) == reform(this, convert(array))

\* fromBoolean(boolean): convert, then reform.
fromBoolean(this, boolean) == reform(this, convert(boolean))

\* fromNumber(number): convert, then reform.
fromNumber(this, number) == reform(this, convert(number))

\* fromString(string): convert, then reform.
fromString(this, string) == reform(this, convert(string))

\* toArray(): the bits, index 0 first.
toArray(this) == [i \in 1..this.length |-> this.bits[i - 1]]

\* toBinaryString(prefix) with the loop running from the last index down.
toBinaryStringReversed(this, prefix) ==
    (IF prefix THEN <<"0", "b">> ELSE <<>>)
        \o [i \in 1..this.length |-> IF this.bits[this.length - i] THEN "1" ELSE "0"]

\* toBinaryString(prefix)
toBinaryString(this, prefix) ==
    (IF prefix THEN <<"0", "b">> ELSE <<>>)
        \o [i \in 1..this.length |-> IF this.bits[i - 1] THEN "1" ELSE "0"]

\* `${number}` for a number >= 0.
RECURSIVE DecimalText(_)
DecimalText(n) ==
    LET digit == <<"0", "1", "2", "3", "4", "5", "6", "7", "8", "9">>[(n % 10) + 1]
    IN  IF n < 10 THEN <<digit>> ELSE DecimalText(n \div 10) \o <<digit>>

\* The switch of toHexadecimalString: what one round appends to the string.
hexCase(number) ==
    CASE number = 10 -> <<"A">> [] number = 11 -> <<"B">> [] number = 12 -> <<"C">>
      [] number = 13 -> <<"D">> [] number = 14 -> <<"E">> [] number = 15 -> <<"F">>
      [] OTHER -> DecimalText(number)

\* The inner loop: number += stringified[index] == '1' ? 1 : 0 for index in
\* start .. end - 1 (string index i is element i + 1 of the sequence; an index
\* past the end reads undefined, which is not '1').
RECURSIVE hexCount(_, _, _)
hexCount(stringified, index, end) ==
    IF index >= end THEN 0
    ELSE (IF index < Len(stringified) /\ stringified[index + 1] = "1" THEN 1 ELSE 0)
            + hexCount(stringified, index + 1, end)

\* `number` of round char, with `end <= stringified.length` as the test.
hexNumberInclusive(stringified, char) ==
    LET start == char * 4
        end == start + 4
    IN  IF end <= Len(stringified) THEN hexCount(stringified, start, end) ELSE 0

\* `number` of round char.
hexNumber(stringified, char) ==
    LET start == char * 4
        end == start + 4
    IN  IF end < Len(stringified) THEN hexCount(stringified, start, end) ELSE 0

RECURSIVE hexLoop(_, _, _)
hexLoop(stringified, char, length) ==
    IF char >= length THEN <<>>
    ELSE hexCase(hexNumber(stringified, char)) \o hexLoop(stringified, char + 1, length)

\* toHexadecimalString(prefix)
toHexadecimalString(this, prefix) ==
    LET stringified == toBinaryString(this, FALSE)
        length == (Len(stringified) + 3) \div 4
    IN  (IF prefix THEN <<"0", "x">> ELSE <<>>) \o hexLoop(stringified, 0, length)

\* ------------------------------------------------------------ the state

VARIABLES
    x,      \* the vector under test (the receiver of every operation)
    op,     \* the last call: "new" after construction, the method's name after
            \* a call, "idle" once its outcome has been taken
    arg,    \* the value passed to the last call (the seed, for "new")
    pre,    \* the vector as it was before the last call
    ret,    \* what the last call returned (This for a call that returns `this`)
    err,    \* the error the last call threw, "" when it returned
    steps,  \* number of calls made since construction
    y,      \* a second vector the caller holds (NoVector until x is copied)
    turned, \* whether the caller has exchanged x and y (x is then the copy)
    prev,   \* in a chain a.f(..).g(..): the call the last one was chained on
    it      \* the iterator over x the caller draws from (NoIterator if none)

vars == <<x, op, arg, pre, ret, err, steps, y, turned, prev, it>>

\* The receiver itself, as a returned value.
This == [kind |-> "this"]

\* No vector: a construction that threw, or a copy not taken yet.
NoVector == [kind |-> "none"]

\* No iterator has been asked for.
NoIterator == [index |-> "none"]

\* No call: the last call was made in a statement of its own.
NoCall == [op |-> "none"]

\* An operand given by reference: the caller's other vector y, or the
\* receiver x itself.
Other == [kind |-> "other"]

Itself == [kind |-> "itself"]

\* -------------------------------------------------- the values enumerated

\* Integers handed in as numbers: every value of a small width, with the
\* negative half; for the wide presets, the corner values and the values of
\* the repository's tests and README.
NumberSeeds(size) ==
    IF size <= MaxLength
    THEN {Num(i) : i \in (0 - 2^(size - 1))..(2^size - 1)}
    ELSE IF size <= ByteLength
    THEN {Num(i) : i \in {0, 1, 2, 7, 65, 127, 128, 169, 218, 255} \cup {0 - 1, 0 - 37}}
    ELSE IF size <= WordLength
    THEN {Num(i) : i \in {0, 1, 2, 15, 32767, 32768, 43482, 65535} \cup {0 - 1}}
    ELSE {Num(0), Num(1), Num(2), Num(31), Num(0 - 1), [hi |-> HalfLimb - 1, lo |-> Limb - 1],
          [hi |-> HalfLimb, lo |-> 0], [hi |-> Limb - 1, lo |-> Limb - 1]}

\* The three kinds of bit elements an array may hold.
ElementKinds == {"boolean", "number", "string"}

Element(kind, b) ==
    CASE kind = "boolean" -> Boolean(b = 1)
      [] kind = "number" -> Number(Num(b))
      [] kind = "string" -> String(<<IF b = 1 THEN "1" ELSE "0">>)

\* The array of one kind spelling the bit sequence q (first element first).
BitArray(kind, q) == Array([i \in 1..Len(q) |-> Element(kind, q[i])])

BitSeqs(n) == [1..n -> {0, 1}]

\* Arrays: every bit sequence of up to size + MaxExtra elements for a small
\* width; for the wide presets the sequences of the tests and of the spec's
\* truncation and padding examples.
ArraySeqs(size) ==
    IF size <= MaxLength
    THEN UNION {BitSeqs(n) : n \in 1..(size + MaxExtra)}
    ELSE {<<1, 1, 0, 1, 1, 0, 1, 0>>, <<1, 0, 1, 1>>,
          <<1, 0, 1, 1, 0, 1, 1, 0, 1, 0>>, <<0, 1>>}

ArraySeeds(size) == {BitArray(k, q) : k \in ElementKinds, q \in ArraySeqs(size)}

\* Strings: decimal and binary literals.
StringSeeds == {String(<<"1">>), String(<<"2", "1", "8">>),
                String(<<"0", "b", "1", "0", "1", "0", "1", "0", "0", "1">>)}

\* Values convert rejects.
BadSeeds ==
    {Null, Undefined, String(<<>>), String(<<"x">>), Array(<<>>),
     Array(<<Boolean(TRUE), Number(Num(1))>>), Array(<<[kind |-> "object"]>>),
     [kind |-> "object"]}

\* Another vector of the same width, signed or not.
BinarySeeds(size) ==
    {Binary(constructor(size, Number(n), Boolean(s))) : n \in NumberSeeds(size), s \in BOOLEAN}

\* The widths in use: the small ones and those of the presets.
Widths == (1..MaxLength) \cup {BitLength, NibbleLength, ByteLength, WordLength, DwordLength}

\* The widths of the vectors a vector of a small width is filled from: its
\* own, the next shorter and the next longer.
Neighbours(size) == IF size <= MaxLength THEN {size - 1, size, size + 1} \ {0} ELSE {}

\* Vectors of these widths, signed or not: the lowest bit, the highest bit,
\* both, and all bits set.
Crossed ==
    [size \in Widths |->
        {Binary(constructor(n, Number(v), Boolean(s))) :
            n \in Neighbours(size), v \in {Num(1), Num(0 - 1)} \cup NumberSeeds(1), s \in BOOLEAN}
        \cup UNION {{Binary(constructor(n, Number(Num(2^(n - 1) + k)), Boolean(s))) :
                        k \in {0, 1}, s \in BOOLEAN} : n \in Neighbours(size)}]

\* What a constructor is seeded with, per width.
Seeds ==
    [size \in Widths |->
        {Number(n) : n \in NumberSeeds(size)} \cup ArraySeeds(size) \cup StringSeeds
            \cup {Boolean(TRUE), Boolean(FALSE)} \cup Crossed[size]]

\* What an operation is handed, per width.
Operands ==
    [size \in Widths |->
        {Number(n) : n \in NumberSeeds(size)} \cup BinarySeeds(size) \cup StringSeeds
            \cup {Boolean(TRUE)} \cup BadSeeds]

\* Shift counts beyond the values of the width: 2^size and the next one for
\* a width of up to 16 bits, the width of the host's shift and the next one.
Counts ==
    [size \in Widths |->
        {Number(Num(k)) : k \in (IF size <= WordLength THEN {2^size, 2^size + 1} ELSE {})
                                  \cup {DwordLength, DwordLength + 1}}]

\* What a shift is handed, per width.
ShiftOperands == [size \in Widths |-> Operands[size] \cup Counts[size] \cup {Itself}]

\* What fromBinary, fromBoolean, fromNumber and fromString are handed, per
\* width: values of the declared type, and null and undefined, which the
\* type annotations do not keep a caller from passing.
Typed ==
    [size \in Widths |->
        [kind \in {"binary", "boolean", "number", "string"} |->
            {value \in Operands[size] \cup Crossed[size] \cup {Boolean(FALSE)} :
                    value.kind = kind}
                \cup {Null, Undefined}]]

\* What fromArray is handed, per width (besides the vector's own toArray()).
Arrays == [size \in Widths |-> ArraySeeds(size) \cup BadSeeds]

\* The third constructor argument: a boolean, or absent.
Flags == {Boolean(TRUE), Boolean(FALSE), Undefined}

\* The classes and the size each is built with.
Classes == {"binary", "bit", "nibble", "byte", "word", "dword"}

Sizes(tag) ==
    CASE tag = "binary" -> 1..MaxLength
      [] tag = "bit" -> {BitLength}
      [] tag = "nibble" -> {NibbleLength}
      [] tag = "byte" -> {ByteLength}
      [] tag = "word" -> {WordLength}
      [] tag = "dword" -> {DwordLength}

\* new <tag>(...)
New(tag, size, value, flag) ==
    CASE tag = "binary" -> constructor(size, value, flag)
      [] tag = "bit" -> bit(value, flag)
      [] tag = "nibble" -> nibble(value, flag)
      [] tag = "byte" -> byte(value, flag)
      [] tag = "word" -> word(value, flag)
      [] tag = "dword" -> dword(value, flag)

\* get copy: `new binary(this.length, this)`, and `new bit(this)` and the like
\* for the presets; no third argument is passed.
copy(this) == New(this.tag, this.length, Binary(this), Undefined)

\* ------------------------------------------------------------ behaviour

\* new <class>(seed, flag) has just run: it returned a vector, or it threw
\* and there is none.
Init ==
    \E tag \in Classes :
      \E size \in Sizes(tag) :
        \E value \in Seeds[size] \cup BadSeeds, flag \in Flags :
            /\ x = IF constructorError(value) = "" THEN New(tag, size, value, flag)
                   ELSE NoVector
            /\ op = "new"
            /\ arg = value
            /\ pre = x
            /\ ret = IF constructorError(value) = "" THEN This ELSE Undefined
            /\ err = constructorError(value)
            /\ steps = 0
            /\ y = NoVector
            /\ turned = FALSE
            /\ prev = NoCall
            /\ it = NoIterator

\* The caller takes the outcome of the last call and moves on to its next
\* statement: the vectors stay, the record of the call is dropped.
Settle ==
    /\ op # "idle"
    /\ x # NoVector
    /\ op' = "idle"
    /\ arg' = Undefined
    /\ pre' = x
    /\ ret' = Undefined
    /\ err' = ""
    /\ UNCHANGED <<x, steps, y, turned, prev, it>>

\* The caller turns to its other vector: from now on x names the copy and y
\* the original.
Turn ==
    /\ op = "idle"
    /\ y # NoVector
    /\ ~turned
    /\ turned' = TRUE
    /\ x' = y
    /\ y' = x
    /\ pre' = y
    /\ UNCHANGED <<op, arg, ret, err, steps, prev, it>>

\* A call can be made: the last one is settled and the budget is not spent.
Ready == op = "idle" /\ steps < (IF x.length <= MaxLength THEN MaxSteps ELSE MaxWideSteps)

\* What a call is handed: any operand while x is the caller's only vector;
\* once there are two, one of them.
Handed == IF y = NoVector THEN Operands[x.length] \cup {Itself} ELSE {Other, Itself}

\* The value a handed operand is at the time of the call.
Passed(value) ==
    CASE value = Other -> Binary(y)
      [] value = Itself -> Binary(x)
      [] OTHER -> value

\* The other vector if an operation kept the temporary it builds from its
\* operand in the operand's place.
otherCoerced(value) ==
    IF value = Other THEN constructor(x.length, Binary(y), Boolean(x.useSigned)) ELSE y

\* The caller's other vector after a call on x that was handed value: the
\* operand is only read (convert takes data.valueOf()), the temporary built
\* from it is a new object, and reform writes the indices of its target alone.
otherAfter(value) == y

\* A static operation handing back a new vector with the result.
returnsCopy(target) == Binary(target)

\* `return target`: a static operation hands back the vector it reformed.
returns(target) == This

\* A static operation that clears the target before it builds the operand.
MutateCleared(name, value, next) ==
    /\ steps' = steps + 1
    /\ op' = name
    /\ arg' = value
    /\ pre' = x
    /\ y' = y
    /\ turned' = turned
    /\ prev' = prev
    /\ it' = it
    /\ IF constructorError(Passed(value)) # ""
       THEN x' = reform(x, Num(0)) /\ err' = constructorError(Passed(value)) /\ ret' = Undefined
       ELSE x' = next /\ err' = "" /\ ret' = This

\* A call name(value) of a static operation on x: the operand is built
\* first, and a throw there leaves x as it was.
Mutate(name, value, next) ==
    /\ steps' = steps + 1
    /\ op' = name
    /\ arg' = value
    /\ pre' = x
    /\ y' = otherAfter(value)
    /\ turned' = turned
    /\ prev' = prev
    /\ it' = it
    /\ IF constructorError(Passed(value)) # ""
       THEN x' = x /\ err' = constructorError(Passed(value)) /\ ret' = Undefined
       ELSE x' = next /\ err' = "" /\ ret' = returns(next)

\* A call name(value) that reads x and returns result.
Query(name, value, result) ==
    /\ steps' = steps + 1
    /\ op' = name
    /\ arg' = value
    /\ pre' = x
    /\ x' = x
    /\ y' = otherAfter(value)
    /\ turned' = turned
    /\ prev' = prev
    /\ it' = it
    /\ err' = ""
    /\ ret' = result

\* A call name(value) of a static comparison on x: the operand is built
\* first; nothing is written.
Compare(name, value, result) ==
    /\ steps' = steps + 1
    /\ op' = name
    /\ arg' = value
    /\ pre' = x
    /\ x' = x
    /\ y' = otherAfter(value)
    /\ turned' = turned
    /\ prev' = prev
    /\ it' = it
    /\ IF constructorError(Passed(value)) # ""
       THEN err' = constructorError(Passed(value)) /\ ret' = Undefined
       ELSE err' = "" /\ ret' = Boolean(result)

And == Ready /\ \E value \in Handed : Mutate("and", value, and(x, Passed(value)))

Or == Ready /\ \E value \in Handed : Mutate("or", value, or(x, Passed(value)))

Xor == Ready /\ \E value \in Handed : Mutate("xor", value, xor(x, Passed(value)))

\* not() takes no operand and cannot throw.
Not ==
    /\ Ready
    /\ steps' = steps + 1
    /\ op' = "not"
    /\ arg' = Undefined
    /\ pre' = x
    /\ x' = not(x)
    /\ y' = otherAfter(Undefined)
    /\ turned' = turned
    /\ prev' = prev
    /\ it' = it
    /\ err' = ""
    /\ ret' = returns(not(x))

\* What a shift is handed: a count also.
HandedCount == IF y = NoVector THEN ShiftOperands[x.length] ELSE {Other, Itself}

LeftShift ==
    Ready /\ \E value \in HandedCount : Mutate("leftShift", value, leftShift(x, Passed(value)))

RightShift ==
    Ready /\ \E value \in HandedCount : Mutate("rightShift", value, rightShift(x, Passed(value)))

Add == Ready /\ \E value \in Handed : Mutate("add", value, add(x, Passed(value)))

Subtract ==
    Ready /\ \E value \in Handed : Mutate("subtract", value, subtract(x, Passed(value)))

Equal == Ready /\ \E value \in Handed : Compare("equal", value, equal(x, Passed(value)))

NotEqual ==
    Ready /\ \E value \in Handed : Compare("notEqual", value, notEqual(x, Passed(value)))

GreaterThen ==
    Ready /\ \E value \in Handed : Compare("greaterThen", value, greaterThen(x, Passed(value)))

LessThen ==
    Ready /\ \E value \in Handed : Compare("lessThen", value, lessThen(x, Passed(value)))

GreaterThenOrEqual ==
    /\ Ready
    /\ \E value \in Handed :
        Compare("greaterThenOrEqual", value, greaterThenOrEqual(x, Passed(value)))

LessThenOrEqual ==
    /\ Ready
    /\ \E value \in Handed :
        Compare("lessThenOrEqual", value, lessThenOrEqual(x, Passed(value)))

\* toArray() as a value: an array of booleans.
ArrayOf(this) == Array([i \in 1..this.length |-> Boolean(toArray(this)[i])])

\* fromArray(array): convert throws before reform touches the bits.
FromArray ==
    /\ Ready
    /\ \E value \in (IF y = NoVector THEN Arrays[x.length] \cup {ArrayOf(x)}
                    ELSE {ArrayOf(x), ArrayOf(y)}) :
        /\ steps' = steps + 1
        /\ op' = "fromArray"
        /\ arg' = value
        /\ pre' = x
        /\ y' = otherAfter(value)
        /\ turned' = turned
        /\ prev' = prev
        /\ it' = it
        /\ IF convertError(value) # ""
           THEN x' = x /\ err' = convertError(value) /\ ret' = Undefined
           ELSE x' = fromArray(x, value) /\ err' = "" /\ ret' = returns(fromArray(x, value))

\* A call name(value) of a from* method on x: convert throws before reform
\* writes.
From(name, value, next) ==
    /\ steps' = steps + 1
    /\ op' = name
    /\ arg' = value
    /\ pre' = x
    /\ y' = otherAfter(value)
    /\ turned' = turned
    /\ prev' = prev
    /\ it' = it
    /\ IF convertError(Passed(value)) # ""
       THEN x' = x /\ err' = convertError(Passed(value)) /\ ret' = Undefined
       ELSE x' = next /\ err' = "" /\ ret' = returns(next)

FromBinary ==
    /\ Ready
    /\ \E value \in (IF y = NoVector THEN Typed[x.length]["binary"] \cup {Itself}
                     ELSE {Other, Itself}) :
        From("fromBinary", value, fromBinary(x, Passed(value)))

FromBoolean ==
    /\ Ready
    /\ y = NoVector
    /\ \E value \in Typed[x.length]["boolean"] :
        From("fromBoolean", value, fromBoolean(x, value))

FromNumber ==
    /\ Ready
    /\ y = NoVector
    /\ \E value \in Typed[x.length]["number"] :
        From("fromNumber", value, fromNumber(x, value))

FromString ==
    /\ Ready
    /\ y = NoVector
    /\ \E value \in Typed[x.length]["string"] :
        From("fromString", value, fromString(x, value))

\* x.useSigned = !x.useSigned: the caller assigns the public field.
SetUseSigned ==
    /\ Ready
    /\ steps' = steps + 1
    /\ op' = "useSigned"
    /\ arg' = Boolean(~x.useSigned)
    /\ pre' = x
    /\ x' = [x EXCEPT !.useSigned = ~x.useSigned]
    /\ y' = y
    /\ turned' = turned
    /\ prev' = prev
    /\ it' = it
    /\ err' = ""
    /\ ret' = Undefined

GetUnsigned == Ready /\ Query("unsigned", Undefined, Number(unsigned(x)))

GetSigned == Ready /\ Query("signed", Undefined, Number(signed(x)))

ValueOf == Ready /\ Query("valueOf", Undefined, Number(valueOf(x)))

ToArray == Ready /\ Query("toArray", Undefined, ArrayOf(x))

\* y = x.copy: the caller keeps the copy as its second vector.
Copy ==
    /\ Ready
    /\ y = NoVector
    /\ steps' = steps + 1
    /\ op' = "copy"
    /\ arg' = Undefined
    /\ pre' = x
    /\ x' = x
    /\ y' = copy(x)
    /\ turned' = turned
    /\ prev' = prev
    /\ it' = it
    /\ err' = ""
    /\ ret' = Binary(copy(x))

ToBinaryString ==
    /\ Ready
    /\ \E prefix \in BOOLEAN :
        Query("toBinaryString", Boolean(prefix), String(toBinaryString(x, prefix)))

ToHexadecimalString ==
    /\ Ready
    /\ \E prefix \in BOOLEAN :
        Query("toHexadecimalString", Boolean(prefix), String(toHexadecimalString(x, prefix)))

Next ==
    \/ Settle
    \/ Turn
    \/ And
    \/ Or
    \/ Xor
    \/ Not
    \/ LeftShift
    \/ RightShift
    \/ Add
    \/ Subtract
    \/ Equal
    \/ NotEqual
    \/ GreaterThen
    \/ LessThen
    \/ GreaterThenOrEqual
    \/ LessThenOrEqual
    \/ FromBinary
    \/ FromArray
    \/ FromBoolean
    \/ FromNumber
    \/ FromString
    \/ SetUseSigned
    \/ GetUnsigned
    \/ GetSigned
    \/ ValueOf
    \/ ToArray
    \/ Copy
    \/ ToBinaryString
    \/ ToHexadecimalString

Spec == Init /\ [][Next]_vars

\* ------------------------------------------------------------- chaining
\* x.f(a).g(b): the second call is made on what the first returned, in the
\* same statement.

\* What the calls of a chain are handed: every integer of the width for the
\* bitwise operations, one value of the declared type for the others.
ChainOperands == [size \in 1..MaxLength |-> {Number(Num(n)) : n \in 0..(2^size - 1)}]

One == Number(Num(1))

\* new binary(size, n, flag) on an integer of the width.
ChainInit ==
    \E size \in 1..MaxLength :
      \E value \in ChainOperands[size], flag \in BOOLEAN :
        /\ x = constructor(size, value, Boolean(flag))
        /\ op = "new"
        /\ arg = value
        /\ pre = x
        /\ ret = This
        /\ err = ""
        /\ steps = 0
        /\ y = NoVector
        /\ turned = FALSE
        /\ prev = NoCall
        /\ it = NoIterator

\* A call can be chained on the construction and on the call after it.
Linked == op # "idle" /\ (op = "new" \/ prev.op = "new")

\* The vector the chained call is made on: the one the last call returned.
Receiver == IF ret = This THEN x ELSE ret.obj

\* .name(value) on the returned vector: x is written when that vector is x.
Then(name, value, next) ==
    /\ prev' = [op |-> op, arg |-> arg, pre |-> pre]
    /\ steps' = steps + 1
    /\ op' = name
    /\ arg' = value
    /\ pre' = x
    /\ x' = IF ret = This THEN next ELSE x
    /\ ret' = IF ret = This THEN returns(next) ELSE Binary(next)
    /\ err' = ""
    /\ UNCHANGED <<y, turned, it>>

ThenAnd == Linked /\ \E value \in ChainOperands[x.length] : Then("and", value, and(Receiver, value))

ThenOr == Linked /\ \E value \in ChainOperands[x.length] : Then("or", value, or(Receiver, value))

ThenXor == Linked /\ \E value \in ChainOperands[x.length] : Then("xor", value, xor(Receiver, value))

ThenNot == Linked /\ Then("not", Undefined, not(Receiver))

ThenLeftShift == Linked /\ Then("leftShift", One, leftShift(Receiver, One))

ThenRightShift == Linked /\ Then("rightShift", One, rightShift(Receiver, One))

ThenAdd == Linked /\ Then("add", One, add(Receiver, One))

ThenSubtract == Linked /\ Then("subtract", One, subtract(Receiver, One))

ThenFromBinary == Linked /\ Then("fromBinary", Itself, fromBinary(Receiver, Binary(Receiver)))

ThenFromArray ==
    Linked /\ Then("fromArray", BitArray("number", <<1>>),
                   fromArray(Receiver, BitArray("number", <<1>>)))

ThenFromBoolean == Linked /\ Then("fromBoolean", Boolean(TRUE), fromBoolean(Receiver, Boolean(TRUE)))

ThenFromNumber == Linked /\ Then("fromNumber", One, fromNumber(Receiver, One))

ThenFromString ==
    Linked /\ Then("fromString", String(<<"1">>), fromString(Receiver, String(<<"1">>)))

ChainNext ==
    \/ ThenAnd
    \/ ThenOr
    \/ ThenXor
    \/ ThenNot
    \/ ThenLeftShift
    \/ ThenRightShift
    \/ ThenAdd
    \/ ThenSubtract
    \/ ThenFromBinary
    \/ ThenFromArray
    \/ ThenFromBoolean
    \/ ThenFromNumber
    \/ ThenFromString

ChainSpec == ChainInit /\ [][ChainNext]_vars

\* ------------------------------------------------------------ iteration
\* for (const value of x): the generator of [Symbol.iterator], one action
\* per value drawn.

\* this[index]: a bit, or undefined where no bit is stored.
At(this, index) == IF index \in DOMAIN this.bits THEN Boolean(this.bits[index]) ELSE Undefined

\* x[Symbol.iterator]() and the first next(): index starts at length - 1,
\* passes the test index >= 0 and the bit there is yielded.
Iterate ==
    /\ op = "new"
    /\ err = ""
    /\ it = NoIterator
    /\ it' = [index |-> x.length - 1, yielded |-> <<At(x, x.length - 1)>>, done |-> FALSE]
    /\ op' = "iterator"
    /\ UNCHANGED <<x, arg, pre, ret, err, steps, y, turned, prev>>

\* A further next(): the generator resumes after the yield, returns if
\* index is 0, and otherwise runs index++, passes the test and yields. The
\* caller draws one value more than the vector has bits, at most.
Resume ==
    /\ it # NoIterator
    /\ ~it.done
    /\ Len(it.yielded) <= x.length
    /\ it' = IF it.index = 0 THEN [it EXCEPT !.done = TRUE]
             ELSE [it EXCEPT !.index = it.index + 1,
                             !.yielded = Append(it.yielded, At(x, it.index + 1))]
    /\ UNCHANGED <<x, op, arg, pre, ret, err, steps, y, turned, prev>>

IterateNext ==
    \/ Iterate
    \/ Resume

IterateSpec == Init /\ [][IterateNext]_vars

\* ----------------------------------------------------------- round trip
\* The README's usage example on every byte: second = new byte(v),
\* second.add(k), second.subtract(k), second.toHexadecimalString(true).

\* The integers a byte holds.
ByteValues == {Number(Num(v)) : v \in 0..(2^ByteLength - 1)}

\* new byte(v)
RoundTripInit ==
    \E value \in ByteValues :
        /\ x = byte(value, Undefined)
        /\ op = "new"
        /\ arg = value
        /\ pre = x
        /\ ret = This
        /\ err = ""
        /\ steps = 0
        /\ y = NoVector
        /\ turned = FALSE
        /\ prev = NoCall
        /\ it = NoIterator

\* second.add(k)
AddAny == op = "new" /\ \E value \in ByteValues : Then("add", value, add(x, value))

\* second.subtract(k), with the k just added
SubtractSame == op = "add" /\ Then("subtract", arg, subtract(x, arg))

\* second.toHexadecimalString(true)
RenderAfter ==
    /\ op = "subtract"
    /\ prev' = [op |-> op, arg |-> arg, pre |-> pre]
    /\ steps' = steps + 1
    /\ op' = "toHexadecimalString"
    /\ arg' = Boolean(TRUE)
    /\ pre' = x
    /\ ret' = String(toHexadecimalString(x, TRUE))
    /\ err' = ""
    /\ UNCHANGED <<x, y, turned, it>>

RoundTripNext ==
    \/ AddAny
    \/ SubtractSame
    \/ RenderAfter

RoundTripSpec == RoundTripInit /\ [][RoundTripNext]_vars

\* ------------------------------------------------------ reference values
\* What the properties below compare the program with: plain arithmetic on
\* the stored bits, in no way derived from the operations above.

\* f[lo] + ... + f[hi] on integers.
RECURSIVE RangeSum(_, _, _)
RangeSum(f, lo, hi) ==
    IF lo > hi THEN 0
    ELSE IF lo = hi THEN f[lo]
    ELSE LET mid == (lo + hi) \div 2
         IN  RangeSum(f, lo, mid) + RangeSum(f, mid + 1, hi)

\* Bit k of n >= 0 (k = 0 is the least significant).
BitOf(n, k) == (n \div (2^k)) % 2

\* The value the bits of a vector spell, index 0 weighing 2^(length-1)
\* (for a length up to 30).
Held(this) ==
    RangeSum([k \in 0..(this.length - 1) |->
                 IF this.bits[this.length - 1 - k] THEN 2^k ELSE 0],
             0, this.length - 1)

\* A number n with 0 <= n <= 2^w - 1.
InRange(n, w) ==
    /\ n.hi >= 0
    /\ IF w <= 16 THEN n.hi = 0 /\ n.lo < 2^w ELSE n.hi < 2^(w - 16)

\* An operand b with 0 <= b <= 2^w - 1: an integer, or an unsigned vector of
\* width w (w <= 16).
PlainOperand(value, w) ==
    \/ value.kind = "number" /\ InRange(value.num, w)
    \/ value.kind = "binary" /\ value.obj.length = w /\ ~value.obj.useSigned

\* The integer such an operand stands for.
OperandValue(value) ==
    IF value.kind = "number" THEN Val(value.num) ELSE Held(value.obj)

\* Bitwise AND, OR, XOR of a, b in 0 .. 2^w - 1, bit by bit.
RefAnd(a, b, w) == RangeSum([k \in 0..(w - 1) |-> BitOf(a, k) * BitOf(b, k) * 2^k], 0, w - 1)

RefOr(a, b, w) ==
    RangeSum([k \in 0..(w - 1) |-> (IF BitOf(a, k) + BitOf(b, k) > 0 THEN 1 ELSE 0) * 2^k],
             0, w - 1)

RefXor(a, b, w) ==
    RangeSum([k \in 0..(w - 1) |-> ((BitOf(a, k) + BitOf(b, k)) % 2) * 2^k], 0, w - 1)

\* The truth value of a bit element of an array.
TruthOf(d) ==
    CASE d.kind = "boolean" -> d.bool
      [] d.kind = "number" -> d.num = Num(1)
      [] d.kind = "string" -> d.text = <<"1">>

\* The sequence e aligned at the least-significant end of w bits: its last w
\* elements, or e preceded by false bits.
Aligned(e, w) ==
    [index \in 0..(w - 1) |->
        LET j == Len(e) - w + index + 1
        IN  IF j >= 1 THEN TruthOf(e[j]) ELSE FALSE]

\* ------------------------------------------------------------ properties

\* C1: an unsigned vector of width w in 1..32 built from an integer v with
\* 0 <= v <= 2^w - 1 reads back v, through unsigned and through valueOf.
C1_UnsignedRoundTrip ==
    (op = "new" /\ arg.kind = "number" /\ ~x.useSigned /\ InRange(arg.num, x.length))
        => (unsigned(x) = arg.num /\ valueOf(x) = arg.num)

\* C2: an unsigned vector of width w built from an array of n >= 1 bit
\* elements of one kind holds the sequence aligned at the least-significant
\* end, whatever the kind of the elements.
C2_ArrayAlignment ==
    (op = "new" /\ arg.kind = "array" /\ err = "" /\ ~x.useSigned)
        => x.bits = Aligned(arg.elems, x.length)

\* C3: on an unsigned vector x, x.fromArray(x.toArray()) returns normally and
\* leaves x with the bits it had.
C3_ArrayRoundTrip ==
    (op = "fromArray" /\ arg = ArrayOf(pre) /\ ~pre.useSigned)
        => (err = "" /\ x.bits = pre.bits)

\* C4: on an unsigned receiver of width w <= 16 holding a, with an operand b
\* in 0 .. 2^w - 1 given as an integer or as an unsigned vector of width w,
\* and / or / xor return normally and leave the receiver holding a AND b,
\* a OR b, a XOR b.
C4_BitwiseOperations ==
    (op \in {"and", "or", "xor"} /\ ~pre.useSigned /\ pre.length <= 16
            /\ PlainOperand(arg, pre.length))
        => /\ err = ""
           /\ x.length = pre.length
           /\ Held(x) = CASE op = "and" -> RefAnd(Held(pre), OperandValue(arg), pre.length)
                          [] op = "or" -> RefOr(Held(pre), OperandValue(arg), pre.length)
                          [] op = "xor" -> RefXor(Held(pre), OperandValue(arg), pre.length)

\* 0xA9 XOR 0xDA on a byte gives 115.
C4_Witness ==
    /\ op = "xor" /\ x.length = 8 /\ ~pre.useSigned
    /\ Held(pre) = 169 /\ arg = Number(Num(218)) /\ Held(x) = 115

\* C5: on an unsigned receiver of width w <= 16 holding a, with an operand b
\* in 0 .. 2^w - 1, add leaves (a + b) mod 2^w and subtract leaves
\* (a - b) mod 2^w, and neither raises an error.
C5_ModularArithmetic ==
    (op \in {"add", "subtract"} /\ ~pre.useSigned /\ pre.length <= 16
            /\ PlainOperand(arg, pre.length))
        => /\ err = ""
           /\ x.length = pre.length
           /\ Held(x) = IF op = "add"
                        THEN (Held(pre) + OperandValue(arg)) % (2^(pre.length))
                        ELSE (Held(pre) - OperandValue(arg)) % (2^(pre.length))

\* 0xA9 - 0xDA on a byte underflows and gives 207.
C5_Witness ==
    /\ op = "subtract" /\ x.length = 8 /\ ~pre.useSigned
    /\ Held(pre) = 169 /\ arg = Number(Num(218)) /\ Held(x) = 207

\* Bit k of an int32 n in two's complement (k = 31 is the sign).
Ref32Bit(n, k) == IF k = 31 THEN (IF n < 0 THEN 1 ELSE 0) ELSE (n \div (2^k)) % 2

\* a & b on int32, bit by bit.
Ref32And(a, b) ==
    RangeSum([k \in 0..30 |-> Ref32Bit(a, k) * Ref32Bit(b, k) * 2^k], 0, 30)
        + (IF Ref32Bit(a, 31) * Ref32Bit(b, 31) = 1 THEN MinInt32 ELSE 0)

\* The int32 image of mask (w ones), of halfMask = mask >> 1 and of
\* signMask = mask & halfMask (w <= 30, or w = 32).
RefMask(w) == IF w >= 32 THEN 0 - 1 ELSE 2^w - 1

RefHalfMask(w) == RefMask(w) \div 2

RefSignMask(w) == Ref32And(RefMask(w), RefHalfMask(w))

\* C6: on an unsigned receiver of width w <= 16 holding v, with an integer
\* count k, 0 <= k < w, leftShift leaves (v * 2^k) mod 2^w and rightShift
\* leaves floor(v / 2^k).
C6_Shifts ==
    (op \in {"leftShift", "rightShift"} /\ ~pre.useSigned /\ pre.length <= 16
            /\ arg.kind = "number" /\ InRange(arg.num, pre.length)
            /\ Val(arg.num) < pre.length)
        => /\ err = ""
           /\ x.length = pre.length
           /\ Held(x) = IF op = "leftShift"
                        THEN (Held(pre) * 2^Val(arg.num)) % (2^(pre.length))
                        ELSE Held(pre) \div (2^Val(arg.num))

\* 0xA9 << 2 on a byte gives 164.
C6_Witness ==
    /\ op = "leftShift" /\ x.length = 8 /\ ~pre.useSigned
    /\ Held(pre) = 169 /\ arg = Number(Num(2)) /\ Held(x) = 164

C8_TwosComplement ==
    (op = "signed" /\ pre.length <= 16)
        => Val(ret.num) = IF pre.bits[0] THEN Held(pre) - 2^(pre.length) ELSE Held(pre)

\* The sixteen hexadecimal digits.
HexDigits == <<"0", "1", "2", "3", "4", "5", "6", "7", "8", "9", "A", "B", "C", "D", "E", "F">>

\* The value 0..15 of the 4-bit group g of a vector (g = 0 is the most
\* significant group).
GroupValue(this, g) ==
    RangeSum([j \in 0..3 |-> IF this.bits[4 * g + j] THEN 2^(3 - j) ELSE 0], 0, 3)

\* C9: for a width that is a multiple of 4, toHexadecimalString returns one
\* digit per 4-bit group from the most significant side, the group's value
\* written 0-9/A-F, preceded by '0x' iff prefix is true.
C9_PositionalHex ==
    (op = "toHexadecimalString" /\ pre.length % 4 = 0)
        => ret.text = (IF arg.bool THEN <<"0", "x">> ELSE <<>>)
                        \o [g \in 1..(pre.length \div 4) |->
                                HexDigits[GroupValue(pre, g - 1) + 1]]

\* ceil(w / 4)
Chunks(w) == (w \div 4) + (IF w % 4 = 0 THEN 0 ELSE 1)

\* The number of set bits among indices 4c .. 4c + 3 of a vector.
ChunkOnes(this, c) ==
    Cardinality({i \in (4 * c)..(4 * c + 3) : i < this.length /\ this.bits[i]})

\* What toHexadecimalString returned after the optional '0x'.
HexDigitsReturned ==
    IF arg.bool THEN SubSeq(ret.text, 3, Len(ret.text)) ELSE ret.text

\* The prefix is '0x' exactly when asked for.
HexPrefixAsAsked ==
    arg.bool => (Len(ret.text) >= 2 /\ ret.text[1] = "0" /\ ret.text[2] = "x")

\* The digit written for a count of set bits 0..4.
CountDigit(n) == <<"0", "1", "2", "3", "4">>[n + 1]

C11_BinaryString ==
    (op = "toBinaryString")
        => LET digits == IF arg.bool THEN SubSeq(ret.text, 3, Len(ret.text)) ELSE ret.text
           IN  /\ arg.bool => (Len(ret.text) >= 2 /\ ret.text[1] = "0" /\ ret.text[2] = "b")
               /\ Len(digits) = pre.length
               /\ \A i \in 0..(pre.length - 1) :
                    /\ digits[i + 1] \in {"0", "1"}
                    /\ (digits[i + 1] = "1") <=> pre.bits[i]
                    /\ (digits[i + 1] = "1") <=> toArray(pre)[i + 1]

\* A byte holding 218 renders as '0b11011010'.
C11_Witness ==
    /\ op = "toBinaryString" /\ arg = Boolean(TRUE)
    /\ pre.length = 8 /\ Held(pre) = 218
    /\ ret = String(<<"0", "b", "1", "1", "0", "1", "1", "0", "1", "0">>)

\* C12: x.copy is a vector of the same class with the width, the bits and the
\* signed flag of x, for binary and for the presets.
C12_CopyKeepsAll ==
    (op = "copy")
        => /\ err = ""
           /\ ret.kind = "binary"
           /\ ret.obj.tag = pre.tag
           /\ ret.obj.length = pre.length
           /\ ret.obj.bits = pre.bits
           /\ ret.obj.useSigned = pre.useSigned

\* The six comparisons.
Comparisons ==
    {"equal", "notEqual", "greaterThen", "lessThen", "greaterThenOrEqual", "lessThenOrEqual"}

\* The operations that write the receiver's bits.
Mutators ==
    {"and", "or", "xor", "not", "leftShift", "rightShift", "add", "subtract",
     "fromBinary", "fromArray", "fromBoolean", "fromNumber", "fromString"}

\* C13: a call changes nothing but the bits of its receiver: the caller's
\* other vector (passed as operand or not, the original or the copy) keeps
\* its bits and signed flag, the receiver keeps everything but its bits, and
\* a comparison, a getter or a conversion keeps the receiver whole.
C13_OnlyReceiverBitsChange ==
    [][op' \notin {"idle", "useSigned"}
        => /\ op' # "copy" => y' = y
           /\ [x' EXCEPT !.bits = x.bits] = x
           /\ op' \notin Mutators => x' = x]_vars

\* add(original) on the copy changed the copy, the original being the
\* operand.
C13_Witness ==
    /\ op = "add" /\ arg = Other /\ turned /\ err = ""
    /\ x.bits # pre.bits /\ y.useSigned /\ y.length = 4

\* Bitwise AND, OR, XOR by the name of the operation.
RefBitwise(name, a, b, w) ==
    CASE name = "and" -> RefAnd(a, b, w)
      [] name = "or" -> RefOr(a, b, w)
      [] name = "xor" -> RefXor(a, b, w)

\* C14: every call of a chain returns its receiver, so that x.f(a).g(b)
\* makes both calls on x and builds no other vector; for f and g among and,
\* or, xor on an unsigned x holding v, x ends holding (v f a) g b.
C14_Chaining ==
    op # "new"
        => /\ ret = This
           /\ y = NoVector
           /\ x.length = pre.length /\ x.useSigned = pre.useSigned
           /\ (prev.op \in {"and", "or", "xor"} /\ op \in {"and", "or", "xor"}
                    /\ ~x.useSigned)
                => Held(x) = RefBitwise(op,
                                RefBitwise(prev.op, Held(prev.pre), Val(prev.arg.num), x.length),
                                Val(arg.num), x.length)

\* x = 5 of width 4: x.and(6).or(8) leaves 12 in x.
C14_Witness ==
    /\ op = "or" /\ prev.op = "and" /\ ~x.useSigned /\ x.length = 4
    /\ Held(prev.pre) = 5 /\ prev.arg = Number(Num(6)) /\ arg = Number(Num(8))
    /\ Held(x) = 12 /\ ret = This

\* The errors an operand can raise.
OperandErrors ==
    {"null", "undefined", "empty string", "non-numeric string", "empty array",
     "array content", "unsupported"}

\* C15: when a bitwise, shift, arithmetic or from* call raises an error, the
\* receiver has the bits, the width and the signed flag it had before the
\* call, and the call returned nothing.
C15_ErrorLeavesReceiver ==
    (op \in Mutators /\ err # "")
        => /\ err \in OperandErrors
           /\ x = pre
           /\ ret = Undefined

\* add(null) on a vector holding 5 threw and the vector still holds 5.
C15_Witness ==
    /\ op = "add" /\ arg = Null /\ err = "null"
    /\ x.length = 4 /\ Held(x) = 5 /\ x = pre

\* The characters of a decimal, binary or hexadecimal literal.
LiteralCharacters ==
    {"0", "1", "2", "3", "4", "5", "6", "7", "8", "9", "b", "x", "A", "B", "C", "D", "E", "F"}

\* The error class the specification names for an invalid seed, "" for a
\* seed it does not call invalid.
SeedErrorClass(value) ==
    CASE value.kind = "null" -> "NullValueError"
      [] value.kind = "string" /\ value.text = <<>> -> "EmptyValueError"
      [] value.kind = "array" /\ value.elems = <<>> -> "EmptyValueError"
      [] value.kind = "string" /\ value.text[1] \notin LiteralCharacters \ {"b", "x"}
            -> "NotANumberError"
      [] value.kind = "array"
            /\ \/ \E i, j \in DOMAIN value.elems : value.elems[i].kind # value.elems[j].kind
               \/ \E i \in DOMAIN value.elems :
                      value.elems[i].kind \notin {"boolean", "number", "string"}
            -> "TypeError"
      [] value.kind \notin {"undefined", "binary", "number", "boolean", "string", "array"}
            -> "TypeError"
      [] OTHER -> ""

\* The class of an error of the program, by its message.
ErrorClass(message) ==
    CASE message = "null" -> "NullValueError"
      [] message = "undefined" -> "UndefinedValueError"
      [] message \in {"empty string", "empty array"} -> "EmptyValueError"
      [] message = "non-numeric string" -> "NotANumberError"
      [] message \in {"array content", "unsupported"} -> "TypeError"
      [] OTHER -> ""

C17_NoSeedIsZero ==
    (op = "new" /\ arg = Undefined)
        => /\ err = ""
           /\ x # NoVector
           /\ \A index \in 0..(x.length - 1) : ~x.bits[index]

\* The native relation a comparison stands for, on doubles and on integers.
NumRelation(name, a, b) ==
    CASE name = "equal" -> a = b
      [] name = "notEqual" -> a # b
      [] name = "greaterThen" -> NumLess(b, a)
      [] name = "lessThen" -> NumLess(a, b)
      [] name = "greaterThenOrEqual" -> ~NumLess(a, b)
      [] name = "lessThenOrEqual" -> ~NumLess(b, a)

Relation(name, a, b) ==
    CASE name = "equal" -> a = b
      [] name = "notEqual" -> a # b
      [] name = "greaterThen" -> a > b
      [] name = "lessThen" -> a < b
      [] name = "greaterThenOrEqual" -> a >= b
      [] name = "lessThenOrEqual" -> a <= b

\* The operand of the last call, a reference resolved (a comparison leaves
\* both vectors as they were).
Compared ==
    CASE arg = Other -> Binary(y)
      [] arg = Itself -> Binary(pre)
      [] OTHER -> arg

OperandVector ==
    CASE arg = Other -> y
      [] arg = Itself -> pre
      [] OTHER -> arg.obj

\* C19: add and subtract with a vector as operand leave the reform, under
\* the receiver's flag, of the receiver's value plus or minus the operand's
\* value, each read under its own flag.
C19_MixedSignedness ==
    (op \in {"add", "subtract"} /\ arg.kind \in {"binary", "other", "itself"})
        => /\ err = ""
           /\ x = reform(pre, IF op = "add"
                               THEN NumAdd(valueOf(pre), valueOf(OperandVector))
                               ELSE NumSub(valueOf(pre), valueOf(OperandVector)))

\* The host's shift of v (0 <= v < 2^16) by the count k >= 0, which the host
\* takes modulo 32, reduced to w <= 16 bits.
RefShift(name, v, k, w) ==
    LET c == k % 32
    IN  IF name = "leftShift"
        THEN (IF c >= w THEN 0 ELSE (v % (2^(w - c))) * (2^c))
        ELSE (IF c >= 16 THEN 0 ELSE (v \div (2^c)) % (2^w))

\* C20: on an unsigned receiver of width w <= 16 holding v, leftShift(k) and
\* rightShift(k) with an integer k >= 0, whatever its size, leave the host's
\* shift of v by k itself, reduced to the width.
C20_ShiftCountAsGiven ==
    (op \in {"leftShift", "rightShift"} /\ ~pre.useSigned /\ pre.length <= 16
            /\ arg.kind = "number" /\ arg.num.hi >= 0 /\ arg.num.hi < 2^14)
        => /\ err = ""
           /\ Held(x) = RefShift(op, Held(pre), Val(arg.num), pre.length)

\* The double 2^w (w up to 32).
PowerOfTwo(w) == IF w < 16 THEN [hi |-> 0, lo |-> 2^w] ELSE [hi |-> 2^(w - 16), lo |-> 0]

\* The largest int32, 2^31 - 1.
MaxInt32 == (0 - 1) - MinInt32

\* C21: a vector of width w has mask = 2^w - 1, halfMask = 2^(w-1) - 1 and
\* signMask = mask & halfMask, none of them negative, in every state.
C21_Masks ==
    x # NoVector
        => LET w == x.length
           IN  /\ ~NumIsNegative(x.mask)
               /\ NumAdd(x.mask, Num(1)) = PowerOfTwo(w)
               /\ x.decimalMask >= 0
               /\ x.decimalMask = (IF w = 32 THEN MaxInt32 ELSE 2^(w - 1) - 1)
               /\ x.signedMask >= 0
               /\ x.signedMask = Ref32And(ToInt32(x.mask), x.decimalMask)

\* The bits of the vector v aligned at the least-significant end of w bits:
\* its last w bits, or its bits preceded by false bits.
AlignedBits(v, w) ==
    [index \in 0..(w - 1) |->
        LET j == v.length - w + index
        IN  IF j >= 0 THEN v.bits[j] ELSE FALSE]

\* C22: fromBinary(v), and a construction seeded with the vector v, leave
\* the bits of v aligned at the least-significant end, whatever the signed
\* flags of the two vectors.
C22_BinaryAlignment ==
    (op \in {"new", "fromBinary"} /\ err = "" /\ arg.kind \in {"binary", "other", "itself"})
        => x.bits = AlignedBits(OperandVector, x.length)

\* C23: on an unsigned byte holding v, add(k) with k in 0..255 leaves
\* (v + k) mod 256, and the subtract(k) after it leaves the byte as it was
\* before the two calls, holding v.
C23_AddSubtractRoundTrip ==
    /\ op = "add" => (err = "" /\ Held(x) = (Held(pre) + Val(arg.num)) % (2^ByteLength))
    /\ (op = "subtract" /\ prev.op = "add")
            => (err = "" /\ arg = prev.arg /\ x = prev.pre /\ Held(x) = Held(prev.pre))

\* The README's case: 255, add(1) wraps to 0, subtract(1) gives 255 again.
C23_Witness ==
    /\ op = "subtract" /\ prev.op = "add" /\ arg = Number(Num(1))
    /\ Held(prev.pre) = 2^ByteLength - 1 /\ Held(pre) = 0 /\ Held(x) = 2^ByteLength - 1

\* The number the last construction, from* call, add or subtract handed to
\* reform.
NativeResult ==
    LET given == valueOf(constructor(pre.length, Compared, Boolean(pre.useSigned)))
    IN  CASE op = "add" -> NumAdd(valueOf(pre), given)
          [] op = "subtract" -> NumSub(valueOf(pre), given)
          [] OTHER -> convert(Compared)

\* C24: after a construction, a from* call, an add or a subtract on a signed
\* vector of width w with native result r, bit 0 is true iff r < 0 and each
\* other bit i is true iff r has the bit of weight 2^(w-1-i), the weights in
\* halfMask being those below the sign position.
C24_SignedReform ==
    (op \in {"new", "fromBinary", "fromArray", "fromBoolean", "fromNumber", "fromString",
             "add", "subtract"} /\ err = "" /\ x.useSigned)
        => \A i \in 0..(x.length - 1) :
              x.bits[i] = IF i = 0 THEN NumIsNegative(NativeResult)
                          ELSE Ref32Bit(ToInt32(NativeResult), x.length - 1 - i) = 1

\* C25: an iteration over a vector of width w yields the bits from index
\* w - 1 down to index 0, w values in all, and then ends.
C25_IterationYieldsBits ==
    it # NoIterator
        => /\ Len(it.yielded) <= x.length
           /\ \A k \in 1..Len(it.yielded) : it.yielded[k] = Boolean(x.bits[x.length - k])
           /\ it.done => Len(it.yielded) = x.length

\* C26: after fromBoolean(b), or a construction from the boolean b, the
\* last bit is b and every other bit is false, on signed and unsigned
\* vectors of every width.
C26_BooleanSeed ==
    (op \in {"new", "fromBoolean"} /\ err = "" /\ arg.kind = "boolean")
        => \A i \in 0..(x.length - 1) : x.bits[i] = (i = x.length - 1 /\ arg.bool)

\* The width each preset is built with (0 for the general binary).
PresetLength(tag) ==
    CASE tag = "bit" -> 1
      [] tag = "nibble" -> 4
      [] tag = "byte" -> 8
      [] tag = "word" -> 16
      [] tag = "dword" -> 32
      [] OTHER -> 0

\* C27: in every state a vector has a boolean at each index 0..width-1 and
\* nowhere else; no call and no assignment of the signed flag changes its
\* width or its mask, the mask being 2^width - 1 and the width of a preset
\* the one of its class.
C27_ShapeKept ==
    x # NoVector
        => /\ DOMAIN x.bits = 0..(x.length - 1)
           /\ \A i \in DOMAIN x.bits : x.bits[i] \in BOOLEAN
           /\ x.length >= 1
           /\ NumAdd(x.mask, Num(1)) = PowerOfTwo(x.length)
           /\ x.tag # "binary" => x.length = PresetLength(x.tag)
           /\ op \notin {"new", "idle"}
                => (x.length = pre.length /\ x.mask = pre.mask /\ x.tag = pre.tag)
           /\ y # NoVector => (y.length = x.length /\ y.mask = x.mask)

\* A byte holding 218 has had its signed flag set: it is the same byte
\* with the same bits.
C27_Witness ==
    /\ op = "useSigned" /\ x.useSigned /\ ~pre.useSigned /\ x.tag = "byte"
    /\ x.length = 8 /\ Held(x) = 218 /\ x.bits = pre.bits

\* C28: not() leaves every bit of the receiver complemented, on signed and
\* unsigned receivers.
C28_NotComplements ==
    op = "not"
        => /\ err = ""
           /\ \A i \in 0..(x.length - 1) : x.bits[i] = ~pre.bits[i]

\* A number n with -2^(w-1) <= n <= 2^(w-1) - 1.
SignedInRange(n, w) ==
    /\ n.hi >= 0 - HalfLimb
    /\ n.hi < HalfLimb
    /\ w < 32 => (Val(n) >= 0 - 2^(w - 1) /\ Val(n) <= 2^(w - 1) - 1)

\* C29: a signed vector of width w >= 2 built from an integer v with
\* -2^(w-1) <= v <= 2^(w-1) - 1 reads back v through valueOf.
C29_SignedRoundTrip ==
    (op = "new" /\ err = "" /\ arg.kind = "number" /\ x.useSigned /\ x.length >= 2
            /\ SignedInRange(arg.num, x.length))
        => valueOf(x) = arg.num

\* C30: equal is reflexive: x.equal(x) and x.equal(x.copy) return true and
\* x.notEqual(x) returns false, for signed and unsigned x of every width.
C30_EqualReflexive ==
    /\ (op = "equal" /\ (arg = Itself \/ (arg = Other /\ y = copy(pre))))
           => (err = "" /\ ret = Boolean(TRUE))
    /\ (op = "notEqual" /\ arg = Itself) => (err = "" /\ ret = Boolean(FALSE))

====
